---- MODULE Spec2Model ----
(***************************************************************************)
(* wine_ratings.py: a WhatsApp export directory is turned into one HTML    *)
(* gallery.  main() checks its argument and the transcript, parse_chat()   *)
(* scans the transcript with a one-line cursor, generate_html() sorts the  *)
(* records and emits one block per record whose photo exists, main()       *)
(* writes the file, and the page's filterWines() hides and shows blocks.   *)
(*                                                                         *)
(* Text is modelled character by character: a string is a sequence of      *)
(* one-character strings, so that strip, split, the regular expressions,   *)
(* lower() and the HTML attribute are computed as the code computes them.  *)
(***************************************************************************)
EXTENDS Integers, Sequences, FiniteSets, TLC

VARIABLES
    argGiven,      \* len(sys.argv) >= 2
    chatExists,    \* <export_dir>/_chat.txt exists
    chat,          \* the lines of _chat.txt
    photos,        \* names of the files present in the export directory
    output_file,   \* <export_dir>/wine_ratings.html: [kind, blocks]
    pc,            \* position of main()
    status,        \* exit status of the process, -1 while it runs
    out,           \* what main() has printed
    lines,         \* parse_chat: f.readlines()
    i,             \* parse_chat: the cursor
    wines,         \* parse_chat: the records appended so far
    origins,       \* history: the cursor value at each wines.append
    wines_sorted,  \* generate_html: sorted(wines, ...)
    k,             \* generate_html: position of the for loop in wines_sorted
    html,          \* generate_html: the blocks appended to the document so far
    dom,           \* browser: data-search attribute of each .wine element
    query,         \* browser: value of #searchInput
    display        \* browser: whether each .wine element is shown

vars == <<argGiven, chatExists, chat, photos, output_file, pc, status, out,
          lines, i, wines, origins, wines_sorted, k, html, dom, query, display>>

---------------------------------------------------------------------------
(* Bounds of the model. *)

\* longest transcript, in lines
MaxLines == 3
\* longest enumerated rating-line body, in characters
MaxLen == 4
\* most attachment/rating pairs of a gallery transcript
MaxWines == 3

---------------------------------------------------------------------------
(* Characters and strings. *)

Digits == {"0", "1", "2", "3", "4", "5", "6", "7", "8", "9"}

IsDigit(c) == c \in Digits

\* the only whitespace character of the modelled alphabet
IsSpace(c) == c = " "

DigitVal(c) ==
    CASE c = "0" -> 0 [] c = "1" -> 1 [] c = "2" -> 2 [] c = "3" -> 3
      [] c = "4" -> 4 [] c = "5" -> 5 [] c = "6" -> 6 [] c = "7" -> 7
      [] c = "8" -> 8 [] c = "9" -> 9

UpperLetters ==
    <<"A", "B", "C", "D", "E", "F", "G", "H", "I", "J", "K", "L", "M",
      "N", "O", "P", "Q", "R", "S", "T", "U", "V", "W", "X", "Y", "Z">>

LowerLetters ==
    <<"a", "b", "c", "d", "e", "f", "g", "h", "i", "j", "k", "l", "m",
      "n", "o", "p", "q", "r", "s", "t", "u", "v", "w", "x", "y", "z">>

LowerChar(c) ==
    IF \E n \in 1..26 : UpperLetters[n] = c
    THEN LowerLetters[CHOOSE n \in 1..26 : UpperLetters[n] = c]
    ELSE c

\* str.lower() in Python, String.toLowerCase() in the page's script
Lower(s) == [n \in 1..Len(s) |-> LowerChar(s[n])]

MinOf(S) == CHOOSE x \in S : \A y \in S : x <= y

MaxOf(S) == CHOOSE x \in S : \A y \in S : x >= y

\* needle in hay (Python), hay.includes(needle) (JavaScript)
Contains(hay, needle) ==
    \E n \in 1..(Len(hay) - Len(needle) + 1) :
        SubSeq(hay, n, n + Len(needle) - 1) = needle

\* str.strip()
Strip(s) ==
    LET solid == {n \in 1..Len(s) : ~IsSpace(s[n])}
    IN  IF solid = {} THEN <<>> ELSE SubSeq(s, MinOf(solid), MaxOf(solid))

\* s.split(']')[-1]: what follows the last ']', the whole of s without one
SplitLast(s) ==
    LET closes == {n \in 1..Len(s) : s[n] = "]"}
    IN  IF closes = {} THEN s ELSE SubSeq(s, MaxOf(closes) + 1, Len(s))

\* the end of the digit run that starts at `from` (from - 1 without one)
DigitRunEnd(s, from) ==
    LET stops == {n \in from..Len(s) : ~IsDigit(s[n])}
    IN  IF stops = {} THEN Len(s) ELSE MinOf(stops) - 1

\* the end of the whitespace run that starts at `from` (from - 1 without one)
SpaceRunEnd(s, from) ==
    LET stops == {n \in from..Len(s) : ~IsSpace(s[n])}
    IN  IF stops = {} THEN Len(s) ELSE MinOf(stops) - 1

\* int() of a run of decimal digits
RECURSIVE IntOf(_)
IntOf(run) ==
    IF run = <<>> THEN 0
    ELSE 10 * IntOf(SubSeq(run, 1, Len(run) - 1)) + DigitVal(run[Len(run)])

\* str() of a rating 0..10, as the f-string formats it
Str(n) ==
    CASE n = 10 -> <<"1", "0">>
      [] n = 0 -> <<"0">> [] n = 1 -> <<"1">> [] n = 2 -> <<"2">>
      [] n = 3 -> <<"3">> [] n = 4 -> <<"4">> [] n = 5 -> <<"5">>
      [] n = 6 -> <<"6">> [] n = 7 -> <<"7">> [] n = 8 -> <<"8">>
      [] n = 9 -> <<"9">>

---------------------------------------------------------------------------
(* parse_chat: the tests and extractions of one iteration. *)

ATTACHED_IN == <<"<", "a", "t", "t", "a", "c", "h", "e", "d", ":">>

JPG_IN == <<".", "j", "p", "g">>

ATTACHED_RE == <<"<", "a", "t", "t", "a", "c", "h", "e", "d", ":", " ">>

\* '<attached:' in line and '.jpg' in line.lower()
AttachmentTest(line) ==
    Contains(line, ATTACHED_IN) /\ Contains(Lower(line), JPG_IN)

\* re.search(r'<attached: (.+?)>', line).group(1): the leftmost place where
\* the literal is followed by at least one character and then a '>', and the
\* characters up to the first such '>'.  <<>> stands for no match (a match's
\* group is never empty).
PhotoMatch(line) ==
    LET Closes(p) == {q \in (p + 12)..Len(line) : line[q] = ">"}
        starts == {p \in 1..Len(line) :
                      /\ p + 10 <= Len(line)
                      /\ SubSeq(line, p, p + 10) = ATTACHED_RE
                      /\ Closes(p) # {}}
    IN  IF starts = {} THEN <<>>
        ELSE LET p == MinOf(starts)
             IN  SubSeq(line, p + 11, MinOf(Closes(p)) - 1)

\* i + 1 < len(lines), with the cursor i counted from 0
HasNextLine(cursor, n) == cursor + 1 < n

\* re.search(r'(\d+)', suffix).group(1): the leftmost maximal digit run.
\* <<>> stands for no match.
RatingMatch(suffix) ==
    LET ds == {n \in 1..Len(suffix) : IsDigit(suffix[n])}
    IN  IF ds = {} THEN <<>>
        ELSE SubSeq(suffix, MinOf(ds), DigitRunEnd(suffix, MinOf(ds)))

RatingCap == 10

\* if rating > 10: rating = 10
Clamp(rating) == IF rating > RatingCap THEN RatingCap ELSE rating

\* a mutant of RatingOf: the clamp forgotten
RatingOfUnclamped(suffix) == IntOf(RatingMatch(suffix))

\* a mutant of RatingOf: the pattern -?\d+, a sign in front of the run kept
RatingOfSigned(suffix) ==
    LET ds == {n \in 1..Len(suffix) : IsDigit(suffix[n])}
        v  == Clamp(IntOf(RatingMatch(suffix)))
    IN  IF ds # {} /\ MinOf(ds) > 1 /\ suffix[MinOf(ds) - 1] = "-"
        THEN 0 - v ELSE v

\* rating = int(rating_match.group(1)), clamped
RatingOf(suffix) == Clamp(IntOf(RatingMatch(suffix)))

\* a mutant of CommentOf: the suffix trimmed before the digits are removed
CommentOfTrimmedFirst(suffix) ==
    LET s == Strip(suffix)
    IN  IF s # <<>> /\ IsDigit(s[1])
        THEN Strip(SubSeq(s, SpaceRunEnd(s, DigitRunEnd(s, 1) + 1) + 1,
                          Len(s)))
        ELSE s

\* re.sub(r'^\d+\s*', '', suffix).strip(): ^ matches at the start of the
\* suffix only, so at most one digit run, one at the very first character,
\* is removed together with the whitespace after it.
CommentOf(suffix) ==
    IF suffix # <<>> /\ IsDigit(suffix[1])
    THEN Strip(SubSeq(suffix,
                      SpaceRunEnd(suffix, DigitRunEnd(suffix, 1) + 1) + 1,
                      Len(suffix)))
    ELSE Strip(suffix)

\* a mutant of Advance: the rating line consumed together with its attachment
AdvancePastRating(cursor, appended) ==
    IF appended THEN cursor + 2 ELSE cursor + 1

\* i += 1, whether or not a record was appended
Advance(cursor, appended) == cursor + 1

\* the line at the cursor (counted from 0), stripped
LineAt(ls, cursor) == Strip(ls[cursor + 1])

\* next_line.split(']')[-1] of the line after the cursor
SuffixAfter(ls, cursor) == SplitLast(LineAt(ls, cursor + 1))

\* a mutant of Appends: a missing rating does not stop the record
AppendsWithoutRating(ls, cursor) ==
    /\ AttachmentTest(LineAt(ls, cursor))
    /\ PhotoMatch(LineAt(ls, cursor)) # <<>>
    /\ HasNextLine(cursor, Len(ls))

\* the conditions under which the iteration at the cursor reaches wines.append
Appends(ls, cursor) ==
    /\ AttachmentTest(LineAt(ls, cursor))
    /\ PhotoMatch(LineAt(ls, cursor)) # <<>>
    /\ HasNextLine(cursor, Len(ls))
    /\ RatingMatch(SuffixAfter(ls, cursor)) # <<>>

\* the record appended at the cursor
WineAt(ls, cursor) ==
    [photo   |-> PhotoMatch(LineAt(ls, cursor)),
     rating  |-> RatingOf(SuffixAfter(ls, cursor)),
     comment |-> CommentOf(SuffixAfter(ls, cursor))]

---------------------------------------------------------------------------
(* generate_html: the sort and the block of one record. *)

\* a mutant of InsertByRating: a record goes in front of its equals
InsertBeforeEquals(sorted, wine) ==
    LET ahead == {n \in 1..Len(sorted) : sorted[n].rating > wine.rating}
        at    == IF ahead = {} THEN 0 ELSE MaxOf(ahead)
    IN  SubSeq(sorted, 1, at) \o <<wine>> \o SubSeq(sorted, at + 1, Len(sorted))

\* one step of a stable descending sort: the record goes behind every record
\* rated at least as high
InsertByRating(sorted, wine) ==
    LET ahead == {n \in 1..Len(sorted) : sorted[n].rating >= wine.rating}
        at    == IF ahead = {} THEN 0 ELSE MaxOf(ahead)
    IN  SubSeq(sorted, 1, at) \o <<wine>> \o SubSeq(sorted, at + 1, Len(sorted))

\* sorted(wines, key=lambda x: x['rating'], reverse=True): Python's sort is
\* stable, and stays so under reverse=True
RECURSIVE SortByRating(_)
SortByRating(ws) ==
    IF ws = <<>> THEN <<>>
    ELSE InsertByRating(SortByRating(SubSeq(ws, 1, Len(ws) - 1)), ws[Len(ws)])

SLASH10 == <<"/", "1", "0">>

\* the block of one record, as the f-string fills it: img stands for the
\* base64 text of the photo's bytes
Block(wine) ==
    [img     |-> wine.photo,
     rating  |-> Str(wine.rating) \o SLASH10,
     comment |-> wine.comment,
     search  |-> Lower(wine.comment)]

\* the value the browser gives the attribute written data-search="TEXT": TEXT
\* is not escaped, so the value ends at the first double quote in it
AttributeValue(text) ==
    LET quotes == {n \in 1..Len(text) : text[n] = "\""}
    IN  IF quotes = {} THEN text ELSE SubSeq(text, 1, MinOf(quotes) - 1)

\* searchText.includes(input), input being the lowercased value of the field
Shown(searchText, input) == Contains(searchText, Lower(input))

---------------------------------------------------------------------------
(* The files and the process. *)

Absent == [kind |-> "absent", blocks |-> <<>>]

Earlier == [kind |-> "earlier", blocks |-> <<>>]

Truncated == [kind |-> "truncated", blocks |-> <<>>]

Page(blocks) == [kind |-> "page", blocks |-> blocks]

Exit(code) ==
    /\ pc' = "exit"
    /\ status' = code

\* main: if len(sys.argv) < 2: print usage, sys.exit(1)
Usage ==
    /\ pc = "start"
    /\ ~argGiven
    /\ out' = Append(out, "usage")
    /\ Exit(1)
    /\ UNCHANGED <<argGiven, chatExists, chat, photos, output_file,
                   lines, i, wines, origins, wines_sorted, k, html, dom,
                   query, display>>

\* main: the argument is there
ArgumentGiven ==
    /\ pc = "start"
    /\ argGiven
    /\ pc' = "check"
    /\ UNCHANGED <<argGiven, chatExists, chat, photos, output_file, status, out,
                   lines, i, wines, origins, wines_sorted, k, html, dom,
                   query, display>>

\* a mutant of NoChat: main returns instead of sys.exit(1)
NoChatReturns ==
    /\ pc = "check"
    /\ ~chatExists
    /\ out' = Append(out, "error")
    /\ Exit(0)
    /\ UNCHANGED <<argGiven, chatExists, chat, photos, output_file,
                   lines, i, wines, origins, wines_sorted, k, html, dom,
                   query, display>>

\* main: if not chat_file.exists(): print error, sys.exit(1)
NoChat ==
    /\ pc = "check"
    /\ ~chatExists
    /\ out' = Append(out, "error")
    /\ Exit(1)
    /\ UNCHANGED <<argGiven, chatExists, chat, photos, output_file,
                   lines, i, wines, origins, wines_sorted, k, html, dom,
                   query, display>>

\* main: print("Parsing chat..."); parse_chat: open, readlines, i = 0
OpenChat ==
    /\ pc = "check"
    /\ chatExists
    /\ out' = Append(out, "parsing")
    /\ lines' = chat
    /\ i' = 0
    /\ wines' = <<>>
    /\ origins' = <<>>
    /\ pc' = "scan"
    /\ UNCHANGED <<argGiven, chatExists, chat, photos, output_file, status,
                   wines_sorted, k, html, dom, query, display>>

\* parse_chat: open or readlines raises (unreadable file, bad encoding); the
\* exception is not caught and ends the process
OpenChatFails ==
    /\ pc = "check"
    /\ chatExists
    /\ out' = Append(out, "parsing")
    /\ Exit(1)
    /\ UNCHANGED <<argGiven, chatExists, chat, photos, output_file,
                   lines, i, wines, origins, wines_sorted, k, html, dom,
                   query, display>>

\* parse_chat: one iteration of the while loop
ScanLine ==
    /\ pc = "scan"
    /\ i < Len(lines)
    /\ IF Appends(lines, i)
       THEN /\ wines' = Append(wines, WineAt(lines, i))
            /\ origins' = Append(origins, i)
       ELSE UNCHANGED <<wines, origins>>
    /\ i' = Advance(i, Appends(lines, i))
    /\ UNCHANGED <<argGiven, chatExists, chat, photos, output_file, pc, status,
                   out, lines, wines_sorted, k, html, dom, query, display>>

\* parse_chat returns; main prints the count and "Generating HTML...";
\* generate_html sorts the records and starts its loop
StartRender ==
    /\ pc = "scan"
    /\ i >= Len(lines)
    /\ out' = out \o <<"found", "generating">>
    /\ wines_sorted' = SortByRating(wines)
    /\ k' = 0
    /\ html' = <<>>
    /\ pc' = "render"
    /\ UNCHANGED <<argGiven, chatExists, chat, photos, output_file, status,
                   lines, i, wines, origins, dom, query, display>>

\* generate_html: one iteration of the for loop
RenderWine ==
    /\ pc = "render"
    /\ k < Len(wines_sorted)
    /\ html' = IF wines_sorted[k + 1].photo \in photos
               THEN Append(html, Block(wines_sorted[k + 1]))
               ELSE html
    /\ k' = k + 1
    /\ UNCHANGED <<argGiven, chatExists, chat, photos, output_file, pc, status,
                   out, lines, i, wines, origins, wines_sorted, dom, query,
                   display>>

\* image_to_base64 raises on a photo that exists but cannot be read
RenderWineFails ==
    /\ pc = "render"
    /\ k < Len(wines_sorted)
    /\ wines_sorted[k + 1].photo \in photos
    /\ Exit(1)
    /\ UNCHANGED <<argGiven, chatExists, chat, photos, output_file, out,
                   lines, i, wines, origins, wines_sorted, k, html, dom,
                   query, display>>

\* generate_html returns the document
FinishRender ==
    /\ pc = "render"
    /\ k >= Len(wines_sorted)
    /\ pc' = "write"
    /\ UNCHANGED <<argGiven, chatExists, chat, photos, output_file, status, out,
                   lines, i, wines, origins, wines_sorted, k, html, dom,
                   query, display>>

\* main: open(output_file, 'w'), f.write(html), print("Done! ..."); the
\* process ends with status 0
WriteOutput ==
    /\ pc = "write"
    /\ output_file' = Page(html)
    /\ out' = Append(out, "done")
    /\ Exit(0)
    /\ UNCHANGED <<argGiven, chatExists, chat, photos, lines, i, wines,
                   origins, wines_sorted, k, html, dom, query, display>>

\* main: open raises (the file is left as it was) or write raises after the
\* open has truncated the file
WriteOutputFails ==
    /\ pc = "write"
    /\ output_file' \in {output_file, Truncated}
    /\ Exit(1)
    /\ UNCHANGED <<argGiven, chatExists, chat, photos, out, lines, i, wines,
                   origins, wines_sorted, k, html, dom, query, display>>

---------------------------------------------------------------------------
(* The written page in a browser. *)

QBest == <<"B", "e", "s", "t">>

QLetter == <<"L">>

QAbsent == <<"z", "z">>

\* what is typed into the search field
Queries == {<<>>, QBest, QLetter, QAbsent}

\* the browser loads wine_ratings.html: every block is an element of class
\* wine with its data-search attribute, shown, and the field is empty
LoadPage ==
    /\ pc = "exit"
    /\ status = 0
    /\ output_file.kind = "page"
    /\ dom' = [b \in 1..Len(output_file.blocks) |->
                  AttributeValue(output_file.blocks[b].search)]
    /\ display' = [b \in 1..Len(output_file.blocks) |-> TRUE]
    /\ query' = <<>>
    /\ pc' = "page"
    /\ UNCHANGED <<argGiven, chatExists, chat, photos, output_file, status, out,
                   lines, i, wines, origins, wines_sorted, k, html>>

\* onkeyup="filterWines()": the field holds q, every element of class wine is
\* shown or hidden
KeyUp(q) ==
    /\ pc = "page"
    /\ query' = q
    /\ display' = [b \in 1..Len(dom) |-> Shown(dom[b], q)]
    /\ UNCHANGED <<argGiven, chatExists, chat, photos, output_file, pc, status,
                   out, lines, i, wines, origins, wines_sorted, k, html, dom>>

Next ==
    \/ Usage
    \/ ArgumentGiven
    \/ NoChat
    \/ OpenChat
    \/ OpenChatFails
    \/ ScanLine
    \/ StartRender
    \/ RenderWine
    \/ RenderWineFails
    \/ FinishRender
    \/ WriteOutput
    \/ WriteOutputFails
    \/ LoadPage
    \/ \E q \in Queries : KeyUp(q)

---------------------------------------------------------------------------
(* The inputs: transcripts, the files of the directory, an earlier output. *)

SeqsUpTo(S, n) == UNION {[1..m -> S] : m \in 0..n}

LineJpg == <<"<", "a", "t", "t", "a", "c", "h", "e", "d", ":", " ", "a", ".", "j", "p", "g", ">">>

LineUpperDigit == <<"<", "a", "t", "t", "a", "c", "h", "e", "d", ":", " ", "1", ".", "J", "P", "G", ">">>

LinePngThenJpg == <<"<", "a", "t", "t", "a", "c", "h", "e", "d", ":", " ", "a", ".", "p", "n", "g", ">", " ", "b", ".", "j", "p", "g">>

LineNoSpace == <<"<", "a", "t", "t", "a", "c", "h", "e", "d", ":", "a", ".", "j", "p", "g", ">">>

LineOver == <<"1", "5", " ", "o", "k">>

LineNoDigits == <<"[", "x", "]", " ", "n", "i", "c", "e">>

LineQuoted == <<"7", " ", "\"", "B", "e", "s", "t", "\"">>

NameA == <<"a", ".", "j", "p", "g">>

NameB == <<"b", ".", "j", "p", "g">>

NameUpper == <<"1", ".", "J", "P", "G">>

\* the lines transcripts are made of
Corpus ==
    {LineJpg, LineUpperDigit, LinePngThenJpg, LineNoSpace, LineOver,
     LineNoDigits, LineQuoted}

\* the variables the process and the browser set, before main() starts
Fresh ==
    /\ pc = "start"
    /\ status = -1
    /\ out = <<>>
    /\ lines = <<>>
    /\ i = 0
    /\ wines = <<>>
    /\ origins = <<>>
    /\ wines_sorted = <<>>
    /\ k = 0
    /\ html = <<>>
    /\ dom = <<>>
    /\ query = <<>>
    /\ display = <<>>

\* a run that fails at start: no argument, or a directory without _chat.txt
NoInput ==
    /\ argGiven \in BOOLEAN
    /\ chatExists = FALSE
    /\ chat = <<>>

\* any transcript of up to MaxLines lines of the corpus, any set of photos
Init ==
    /\ \/ NoInput
       \/ /\ argGiven = TRUE
          /\ chatExists = TRUE
          /\ chat \in SeqsUpTo(Corpus, MaxLines)
    /\ photos \in SUBSET {NameA, NameUpper}
    /\ output_file \in {Absent, Earlier}
    /\ Fresh

Spec == Init /\ [][Next]_vars

PrefixStamp == <<"[", "1", "2", ":", "0", "1", "]">>

\* the characters rating lines are enumerated over
RatingAlphabet == {"0", "1", "5", " ", "-", "L", "]"}

\* one attachment followed by any rating line: an optional bracketed prefix,
\* then up to MaxLen characters
InitRating ==
    /\ \/ NoInput
       \/ /\ argGiven = TRUE
          /\ chatExists = TRUE
          /\ \E prefix \in {<<>>, PrefixStamp} :
             \E body \in SeqsUpTo(RatingAlphabet, MaxLen) :
                 chat = <<LineJpg, prefix \o body>>
    /\ photos = {NameA}
    /\ output_file = Absent
    /\ Fresh

SpecRating == InitRating /\ [][Next]_vars

LineB == <<"<", "a", "t", "t", "a", "c", "h", "e", "d", ":", " ", "b", ".", "j", "p", "g", ">">>

LineFive == <<"5", " ", "L">>

LineFiveBare == <<"5">>

\* an attachment line and the rating line after it
Pairs == {LineJpg, LineB} \X {LineFive, LineFiveBare, LineOver}

\* the transcript of a sequence of pairs
Transcript(ps) ==
    [n \in 1..(2 * Len(ps)) |->
        IF n % 2 = 1 THEN ps[(n + 1) \div 2][1] ELSE ps[n \div 2][2]]

\* up to MaxWines rated photos, any of them missing from the directory
InitGallery ==
    /\ \/ NoInput
       \/ /\ argGiven = TRUE
          /\ chatExists = TRUE
          /\ \E ps \in SeqsUpTo(Pairs, MaxWines) : chat = Transcript(ps)
    /\ photos \in SUBSET {NameA, NameB}
    /\ output_file = Absent
    /\ Fresh

SpecGallery == InitGallery /\ [][Next]_vars

---------------------------------------------------------------------------
(* What the properties speak of, stated without the operators of the scan. *)

\* parse_chat has returned
Parsed == pc \in {"render", "write", "exit", "page"} /\ "found" \in {out[n] : n \in 1..Len(out)}

\* the cursor values at which records were appended
Origins == {origins[j] : j \in 1..Len(origins)}

\* the rating line of record j: the line after the attachment line, as
\* parse_chat reads it (stripped)
NextLineOf(j) == Strip(lines[origins[j] + 2])

\* t is what follows the last ']' of line (all of line when it has no ']')
IsSuffixAfterLastClose(line, t) ==
    \E c \in 0..Len(line) :
        /\ t = SubSeq(line, c + 1, Len(line))
        /\ c = 0 \/ line[c] = "]"
        /\ \A n \in (c + 1)..Len(line) : line[n] # "]"

ClaimSuffix(line) ==
    CHOOSE t \in {SubSeq(line, c + 1, Len(line)) : c \in 0..Len(line)} :
        IsSuffixAfterLastClose(line, t)

\* s[a..b] is the first contiguous run of decimal digits of s
IsFirstRun(s, a, b) ==
    /\ 1 <= a /\ a <= b /\ b <= Len(s)
    /\ \A n \in a..b : s[n] \in Digits
    /\ \A n \in 1..(a - 1) : s[n] \notin Digits
    /\ b = Len(s) \/ s[b + 1] \notin Digits

\* the decimal value of the digits s[a..b]
RECURSIVE PlaceValue(_, _, _)
PlaceValue(s, a, b) ==
    IF a > b THEN 0 ELSE DigitVal(s[a]) * 10 ^ (b - a) + PlaceValue(s, a + 1, b)

HasDigit(s) == \E n \in 1..Len(s) : s[n] \in Digits

\* the part of line after its last ']' (all of it without one) holds a digit
HasDigitAfterLastClose(line) ==
    \E n \in 1..Len(line) :
        /\ line[n] \in Digits
        /\ \A m \in (n + 1)..Len(line) : line[m] # "]"

---------------------------------------------------------------------------
(* C2 *)

\* C2: every record's rating is at most 10; it is the value of the first
\* contiguous digit run of the next line's suffix after its last ']' when
\* that value is at most 10, and exactly 10 when the value is greater.
C2_RatingClamped ==
    \A j \in 1..Len(wines) :
        LET s == ClaimSuffix(NextLineOf(j))
        IN  /\ wines[j].rating <= 10
            /\ \E a \in 1..Len(s) : \E b \in a..Len(s) :
                  /\ IsFirstRun(s, a, b)
                  /\ wines[j].rating =
                        IF PlaceValue(s, a, b) <= 10
                        THEN PlaceValue(s, a, b) ELSE 10

\* a record whose digit run is worth more than 10 and whose rating is 10
C2_Witness ==
    \E j \in 1..Len(wines) :
        LET s == ClaimSuffix(NextLineOf(j))
        IN  /\ wines[j].rating = 10
            /\ \E a \in 1..Len(s) : \E b \in a..Len(s) :
                  IsFirstRun(s, a, b) /\ PlaceValue(s, a, b) > 10

---------------------------------------------------------------------------
(* C10 *)

\* C10: every record's rating is in 0..10; a minus sign in front of the
\* digit run is ignored (the rating is the run's value, never negative), and
\* a run worth 0 gives rating 0.
C10_RatingRange ==
    \A j \in 1..Len(wines) :
        LET s == ClaimSuffix(NextLineOf(j))
        IN  /\ wines[j].rating \in 0..10
            /\ \A a \in 1..Len(s) : \A b \in a..Len(s) :
                  IsFirstRun(s, a, b) =>
                     /\ (a > 1 /\ s[a - 1] = "-" /\ PlaceValue(s, a, b) <= 10)
                           => wines[j].rating = PlaceValue(s, a, b)
                     /\ PlaceValue(s, a, b) = 0 => wines[j].rating = 0

\* a record rated above 0 from a digit run with a minus sign in front of it
C10_Witness ==
    \E j \in 1..Len(wines) :
        LET s == ClaimSuffix(NextLineOf(j))
        IN  /\ wines[j].rating > 0
            /\ \E a \in 2..Len(s) : \E b \in a..Len(s) :
                  IsFirstRun(s, a, b) /\ s[a - 1] = "-"

---------------------------------------------------------------------------
(* C9 *)

---------------------------------------------------------------------------
(* C1 *)

\* the transcript is <attached: a.jpg> followed by "[12:01] D T"
IsPlainRatingLine(line, d, t) ==
    /\ line = PrefixStamp \o <<" ">> \o d \o <<" ">> \o t
    /\ d # <<>> /\ \A n \in 1..Len(d) : d[n] \in Digits
    /\ PlaceValue(d, 1, Len(d)) <= 10
    /\ t # <<>> /\ t[1] # " " /\ t[Len(t)] # " "
    /\ \A n \in 1..Len(t) : t[n] # "]"

\* C1: an attachment line followed by "[prefix] D T", the photo being on
\* disk, gives exactly one record with rating D and comment T, and one
\* block showing D/10 whose data-search attribute is T in lower case.
C1_PlainRatingLine ==
    (/\ output_file.kind = "page"
     /\ Len(chat) = 2
     /\ chat[1] = LineJpg
     /\ NameA \in photos)
    => \A e \in (Len(PrefixStamp) + 2)..(Len(chat[2]) - 2) :
          LET d == SubSeq(chat[2], Len(PrefixStamp) + 2, e)
              t == SubSeq(chat[2], e + 2, Len(chat[2]))
          IN  IsPlainRatingLine(chat[2], d, t)
              => /\ wines = <<[photo   |-> NameA,
                               rating  |-> PlaceValue(d, 1, Len(d)),
                               comment |-> t]>>
                 /\ Len(output_file.blocks) = 1
                 /\ output_file.blocks[1].rating =
                       Str(PlaceValue(d, 1, Len(d))) \o SLASH10
                 /\ output_file.blocks[1].search = Lower(t)

---------------------------------------------------------------------------
(* C3 *)

\* the cursor's line passes the attachment test and names a file
IsAttachmentAt(c) ==
    AttachmentTest(LineAt(lines, c)) /\ PhotoMatch(LineAt(lines, c)) # <<>>

\* C3: a record comes from an attachment line only if a next line exists
\* and its part after the last ']' holds a decimal digit; an attachment on
\* the final line, or one followed by a line without digits, gives no
\* record, and every other attachment still gives its record.
C3_RecordNeedsRatedNextLine ==
    /\ Len(wines) = Len(origins)
    /\ \A j \in 1..Len(origins) :
          /\ origins[j] + 2 <= Len(lines)
          /\ HasDigitAfterLastClose(NextLineOf(j))
    /\ Parsed =>
          \A c \in 0..(Len(lines) - 1) :
              c \in Origins <=>
                 /\ IsAttachmentAt(c)
                 /\ c + 2 <= Len(lines)
                 /\ HasDigitAfterLastClose(Strip(lines[c + 2]))

\* a parsed transcript with a record, an attachment followed by a line
\* without digits, and an attachment on the final line
C3_Witness ==
    /\ Parsed
    /\ Len(wines) >= 1
    /\ \E c \in 0..(Len(lines) - 2) :
          /\ IsAttachmentAt(c)
          /\ ~HasDigit(Strip(lines[c + 2]))
          /\ c \notin Origins
    /\ IsAttachmentAt(Len(lines) - 1)
    /\ (Len(lines) - 1) \notin Origins

---------------------------------------------------------------------------
(* C8 *)

\* C8 as stated: the cursor advances by one on every iteration, and no line
\* that served as the rating line of a record produces a record of its own.
C8_RatingLineNeverARecord ==
    \A j \in 1..Len(origins) : (origins[j] + 1) \notin Origins

\* the iteration at cursor i scans the rating line of the latest record
RescansRatingLine ==
    origins # <<>> /\ origins[Len(origins)] = i - 1

\* one iteration of the scan, as C8 amended describes it
C8_Step ==
    (pc = "scan" /\ pc' = "scan") =>
        /\ i' = i + 1
        /\ RescansRatingLine =>
              /\ ~AttachmentTest(LineAt(lines, i)) => wines' = wines
              /\ Len(wines') = Len(wines) + 1 <=>
                    /\ IsAttachmentAt(i)
                    /\ i + 2 <= Len(lines)
                    /\ HasDigitAfterLastClose(Strip(lines[i + 2]))

\* C8, amended: the cursor advances by exactly one on every iteration, also
\* after an append, so a record's rating line is scanned again; it is
\* skipped when it fails the attachment test, and produces a record of its
\* own exactly when it passes that test, names a file, and is followed by a
\* line whose suffix holds a digit.
C8_RatingLineRescanned == [][C8_Step]_vars

\* the rating line of one record has produced a record of its own, and the
\* rating line of that record has been scanned again and skipped
C8_Witness ==
    /\ pc = "scan"
    /\ Len(origins) = 2
    /\ origins[2] = origins[1] + 1
    /\ i = origins[2] + 2
    /\ ~AttachmentTest(LineAt(lines, origins[2] + 1))

---------------------------------------------------------------------------
(* C7 *)

\* C7: a line is an attachment only when the FILENAME inside its marker
\* contains .jpg ignoring case, so every record's photo contains .jpg.
C7_PhotoIsJpg ==
    \A j \in 1..Len(wines) : Contains(Lower(wines[j].photo), JPG_IN)

---------------------------------------------------------------------------
(* C4 *)

\* the records whose photo file exists
Present == {n \in 1..Len(wines) : wines[n].photo \in photos}

\* record m comes before record n: rated higher, or rated the same and
\* parsed earlier
Before(m, n) ==
    \/ wines[m].rating > wines[n].rating
    \/ wines[m].rating = wines[n].rating /\ m < n

\* blocks holds exactly the present records, each at the place its rating
\* and parse order give it
InRatingOrder(blocks) ==
    /\ Len(blocks) = Cardinality(Present)
    /\ \A n \in Present :
          blocks[1 + Cardinality({m \in Present : Before(m, n)})] = Block(wines[n])

IsPresent(wine) == wine.photo \in photos

\* the records dropped first and sorted afterwards
DropThenSort ==
    LET kept == SortByRating(SelectSeq(wines, IsPresent))
    IN  [b \in 1..Len(kept) |-> Block(kept[b])]

\* C4: the emitted blocks are exactly the records whose photo exists, by
\* rating descending, equal ratings in parse order; a record with a missing
\* photo is absent and moves no other block, so sorting and then dropping
\* gives what dropping and then sorting gives.
C4_BlocksSortedPresent ==
    /\ pc = "write" => InRatingOrder(html) /\ html = DropThenSort
    /\ output_file.kind = "page" =>
          InRatingOrder(output_file.blocks) /\ output_file.blocks = DropThenSort

\* a finished document from which a record is missing and whose blocks are
\* not in parse order
C4_Witness ==
    /\ pc = "write"
    /\ Len(wines) = 3
    /\ Cardinality(Present) = 2
    /\ wines[2].photo \notin photos
    /\ wines[1].rating = wines[2].rating
    /\ html = <<Block(wines[3]), Block(wines[1])>>

---------------------------------------------------------------------------
(* C5 *)

Phases == <<"parsing", "found", "generating", "done">>

\* what C5 says of a state
C5_State ==
    /\ (pc = "exit" /\ (~argGiven \/ ~chatExists)) =>
          /\ status \notin {0, -1}
          /\ out \in {<<"usage">>, <<"error">>}
          /\ output_file.kind \in {"absent", "earlier"}
    /\ pc = "write" => out = SubSeq(Phases, 1, 3)
    /\ status = 0 => out = Phases /\ output_file = Page(html)
    /\ status = -1 <=> pc # "exit" /\ pc # "page"

\* what C5 says of a step
C5_Step ==
    /\ (pc = "start" /\ ~argGiven) => pc' = "exit" /\ status' \notin {0, -1}
    /\ (pc = "check" /\ ~chatExists) => pc' = "exit" /\ status' \notin {0, -1}
    /\ (~argGiven \/ ~chatExists) => output_file' = output_file
    /\ output_file' # output_file => pc = "write"
    /\ (pc = "write" /\ status' = 0) => output_file' = Page(html)

\* C5: without the argument or without _chat.txt the process exits with a
\* non-zero status before parsing or rendering, and wine_ratings.html is
\* neither created nor changed; a run that reaches the write has parsed,
\* rendered and written once each in that order, and the write replaces
\* whatever wine_ratings.html held before status 0.
C5_StartupChecksAndPhases == []C5_State /\ [][C5_Step]_vars

\* a run that reaches the write over an earlier wine_ratings.html
C5_Witness ==
    /\ pc = "write"
    /\ output_file = Earlier
    /\ Len(html) >= 1

---------------------------------------------------------------------------
(* C6 *)

\* C6: after any keystrokes, a block is visible exactly when the lowercase
\* copy of its record's comment contains the lowercased current query.
C6_VisibleIffCommentContains ==
    pc = "page" =>
        \A b \in 1..Len(display) :
            display[b] <=>
                Contains(Lower(output_file.blocks[b].comment), Lower(query))

====
